---- MODULE Spec2Model ----
(***************************************************************************)
(* snapbtr: the valuation of timestamped snapshots (timef), the retention  *)
(* planner (sorted_value) and the cleanup controller (cleandir) over a     *)
(* storage backend (Operations / FakeOperations), as a state machine.      *)
(*                                                                         *)
(* A snapshot name is a sequence of one-character strings.  Python's None  *)
(* is the empty sequence <<>> and an optional integer n is <<n>>, so that  *)
(* every comparison is between values of one kind.                         *)
(***************************************************************************)
EXTENDS Integers, Sequences, FiniteSets, TLC

(***************************************************************************)
(* Bounds of the model.                                                    *)
(***************************************************************************)
\* arbitrary initial directories hold at most this many entries
MaxInitDirs == 3
\* cleandir is called at most this many times on one backend
MaxRuns == 2
\* the calls of one kind are counted up to this number
MaxCalls == 12

(***************************************************************************)
(* Characters and strings.                                                 *)
(***************************************************************************)
None == <<>>

Digits == <<"0", "1", "2", "3", "4", "5", "6", "7", "8", "9">>

\* the characters of the names of the model and their byte values, which
\* Python compares strings by
Ord == [c \in {Digits[i] : i \in 1..10} \cup {"-", "b", "k"} |->
           IF c = "-" THEN 45
           ELSE IF c = "b" THEN 98
           ELSE IF c = "k" THEN 107
           ELSE 47 + (CHOOSE i \in 1..10 : Digits[i] = c)]

IsDigit(c) == Ord[c] \in 48..57

DigitVal(c) == Ord[c] - 48

\* a < b for two strings, as Python's str.__lt__: decided at the first
\* place where they differ, and by the lengths when there is none
StrLess(a, b) ==
    LET n    == IF Len(a) < Len(b) THEN Len(a) ELSE Len(b)
        diff == {i \in 1..n : a[i] # b[i]}
    IN  IF diff = {} THEN Len(a) < Len(b)
        ELSE LET i == CHOOSE j \in diff : \A k \in diff : j <= k
             IN  Ord[a[i]] < Ord[b[i]]

\* sorted(S) for a collection S of strings
RECURSIVE sorted(_)
sorted(S) ==
    IF S = {} THEN <<>>
    ELSE LET m == CHOOSE x \in S : \A y \in S \ {x} : StrLess(x, y)
         IN  <<m>> \o sorted(S \ {m})

\* the collection a list was built from
Range(s) == {s[i] : i \in 1..Len(s)}

(***************************************************************************)
(* DATE_FORMAT = '%Y%m%d-%H%M%S': formatting (strftime) and parsing        *)
(* (strptime) of the fixed-width form.                                     *)
(***************************************************************************)
RECURSIVE Pad(_, _)
Pad(n, w) == IF w = 0 THEN <<>> ELSE Pad(n \div 10, w - 1) \o <<Digits[(n % 10) + 1]>>

\* time.strftime(DATE_FORMAT, tm) for tm = <<Y, M, D, h, m, s>>
strftime(tm) ==
    Pad(tm[1], 4) \o Pad(tm[2], 2) \o Pad(tm[3], 2) \o <<"-">>
        \o Pad(tm[4], 2) \o Pad(tm[5], 2) \o Pad(tm[6], 2)

RECURSIVE Num(_)
Num(s) == IF Len(s) = 0 THEN 0
          ELSE 10 * Num(SubSeq(s, 1, Len(s) - 1)) + DigitVal(s[Len(s)])

IsLeap(Y) == (Y % 4 = 0 /\ Y % 100 # 0) \/ Y % 400 = 0

DaysInMonth(Y, M) ==
    IF M = 2 THEN (IF IsLeap(Y) THEN 29 ELSE 28)
    ELSE IF M \in {4, 6, 9, 11} THEN 30 ELSE 31

\* time.strptime(x, DATE_FORMAT): the broken-down time, or None when the
\* name does not match (the ValueError that timef catches).  Every field has
\* its full width here; Python also takes a field of fewer digits, and no
\* name of the model has one.
strptime(x) ==
    IF /\ Len(x) = 15
       /\ \A i \in (1..8) \cup (10..15) : IsDigit(x[i])
       /\ x[9] = "-"
    THEN LET Y == Num(SubSeq(x, 1, 4))
             M == Num(SubSeq(x, 5, 6))
             D == Num(SubSeq(x, 7, 8))
             h == Num(SubSeq(x, 10, 11))
             m == Num(SubSeq(x, 12, 13))
             s == Num(SubSeq(x, 14, 15))
         IN  IF /\ Y >= 1
                /\ M \in 1..12
                /\ D >= 1 /\ D <= DaysInMonth(Y, M)
                /\ h \in 0..23 /\ m \in 0..59 /\ s \in 0..61
             THEN <<Y, M, D, h, m, s>>
             ELSE None
    ELSE None

\* days from 1970-01-01 to the civil date Y-M-D
DaysFromCivil(Y, M, D) ==
    LET y   == IF M <= 2 THEN Y - 1 ELSE Y
        era == y \div 400
        yoe == y - era * 400
        mp  == (M + 9) % 12
        doy == (153 * mp + 2) \div 5 + D - 1
        doe == yoe * 365 + yoe \div 4 - yoe \div 100 + doy
    IN  era * 146097 + doe - 719468

\* time.mktime(tm), seconds since the epoch, in a zone without offset or
\* daylight saving
mktime(tm) ==
    DaysFromCivil(tm[1], tm[2], tm[3]) * 86400 + tm[4] * 3600 + tm[5] * 60 + tm[6]

(***************************************************************************)
(* The value of an instant.                                                *)
(***************************************************************************)
\* math.ceil(float((2**32)/math.log(2**32)))
TIME_SCALE == 193635251

\* The instant the values are measured from: the first name of the built-in
\* test.  The code uses a value only to order names and to order the
\* differences of two values, and both orders are the same for exp(t/c) and
\* for a*(exp(t/c) - b) with a > 0.
Origin == mktime(<<2010, 12, 1, 0, 0, 0>>)

\* math.exp(t / TIME_SCALE), as 5000 * TIME_SCALE * (exp(dt/TIME_SCALE) - 1)
\* for dt = t - Origin, by the series dt + dt^2/(2c) + ... cut after the
\* square: within half a day of Origin the cut is below one unit, while two
\* pairs of names an hour apart differ by more than 300 units.
exp(t) ==
    LET dt == t - Origin
    IN  5000 * dt + (dt * dt) \div ((2 * TIME_SCALE) \div 5000)

\* timef(x): the value of a name, or None for a name that is no timestamp
timef(x) ==
    LET tm == strptime(x)
    IN  IF tm = None THEN None ELSE <<exp(mktime(tm))>>

(***************************************************************************)
(* The retention planner.                                                  *)
(***************************************************************************)
\* (v1, k1) < (v2, k2) for two (value, name) pairs, as Python orders tuples
PairLess(p, q) == p[1] < q[1] \/ (p[1] = q[1] /\ StrLess(p[2], q[2]))

\* sorted(P) for a collection P of (value, name) pairs
RECURSIVE sortedPairs(_)
sortedPairs(P) ==
    IF P = {} THEN <<>>
    ELSE LET m == CHOOSE x \in P : \A y \in P \ {x} : PairLess(x, y)
         IN  <<m>> \o sortedPairs(P \ {m})

\* (d1, f1, t1) < (d2, f2, t2) for two (difference, from, to) triples
DiffLess(p, q) ==
    \/ p[1] < q[1]
    \/ p[1] = q[1] /\ StrLess(p[2], q[2])
    \/ p[1] = q[1] /\ p[2] = q[2] /\ StrLess(p[3], q[3])

\* a slip: of the triples with the least difference, the last one
min_last(diffs) ==
    CHOOSE p \in Range(diffs) :
        \A q \in Range(diffs) \ {p} :
            q[1] > p[1] \/ (q[1] = p[1] /\ StrLess(q[2], p[2]))

\* min(diffs) of a non-empty list of triples
min(diffs) ==
    CHOOSE p \in Range(diffs) : \A q \in Range(diffs) \ {p} : DiffLess(p, q)

\* (items[0], items[1]), (items[1], items[2]), ...
poles(items) == [i \in 1..(Len(items) - 1) |-> <<items[i], items[i + 1]>>]

\* a slip: no item is left out, the latest is a candidate too
all_items(items) == items

\* a slip: the first item is left out, not the last
all_but_first(items) ==
    IF Len(items) = 0 THEN <<>> ELSE SubSeq(items, 2, Len(items))

\* items[0], ..., items[n-1]
all_but_last(items) ==
    IF Len(items) = 0 THEN <<>> ELSE SubSeq(items, 1, Len(items) - 1)

\* a slip: the pairs are sorted from the highest value down
valued_reverse(dirs) ==
    LET v == sortedPairs({<<timef(y)[1], y>> : y \in {z \in Range(dirs) : timef(z) # None}})
    IN  [i \in 1..Len(v) |-> v[Len(v) + 1 - i]]

\* the names of dirs that have a value, as (value, name) pairs in order
valued(dirs) ==
    sortedPairs({<<timef(y)[1], y>> : y \in {z \in Range(dirs) : timef(z) # None}})

\* the dictionary name -> value of the candidates: every valued name except
\* the last of the order, the latest
candidatesOf(dirs) ==
    LET items == all_but_last(valued(dirs))
    IN  [x \in {items[i][2] : i \in 1..Len(items)} |->
            (CHOOSE p \in Range(items) : p[2] = x)[1]]

\* a slip: the loop alone, without the yield that follows it
RECURSIVE yieldedLoopOnly(_)
yieldedLoopOnly(candidates) ==
    IF Cardinality(DOMAIN candidates) > 1
    THEN LET remain == sortedPairs({<<candidates[k], k>> : k \in DOMAIN candidates})
             pl     == poles(remain)
             diffs  == [i \in 1..Len(pl) |->
                          <<pl[i][2][1] - pl[i][1][1], pl[i][1][2], pl[i][2][2]>>]
             mto    == min(diffs)[3]
         IN  <<mto>> \o yieldedLoopOnly([k \in (DOMAIN candidates) \ {mto} |-> candidates[k]])
    ELSE <<>>

\* a slip: the earlier member of the pair, mfrm, is deleted and yielded
RECURSIVE yielded_frm(_)
yielded_frm(candidates) ==
    IF Cardinality(DOMAIN candidates) > 1
    THEN LET remain == sortedPairs({<<candidates[k], k>> : k \in DOMAIN candidates})
             pl     == poles(remain)
             diffs  == [i \in 1..Len(pl) |->
                          <<pl[i][2][1] - pl[i][1][1], pl[i][1][2], pl[i][2][2]>>]
             mfrm   == min(diffs)[2]
         IN  <<mfrm>> \o yielded_frm([k \in (DOMAIN candidates) \ {mfrm} |-> candidates[k]])
    ELSE IF DOMAIN candidates = {} THEN <<>>
    ELSE <<CHOOSE k \in DOMAIN candidates : TRUE>>

\* the loop of _sorted_value and its last yield: the list of names yielded
RECURSIVE yielded(_)
yielded(candidates) ==
    IF Cardinality(DOMAIN candidates) > 1
    THEN LET remain == sortedPairs({<<candidates[k], k>> : k \in DOMAIN candidates})
             pl     == poles(remain)
             diffs  == [i \in 1..Len(pl) |->
                          <<pl[i][2][1] - pl[i][1][1], pl[i][1][2], pl[i][2][2]>>]
             mto    == min(diffs)[3]
         IN  <<mto>> \o yielded([k \in (DOMAIN candidates) \ {mto} |-> candidates[k]])
    ELSE IF DOMAIN candidates = {} THEN <<>>
    ELSE <<CHOOSE k \in DOMAIN candidates : TRUE>>

\* _sorted_value(dirs), as the list of what the generator yields
_sorted_value(dirs) == yielded(candidatesOf(dirs))

sorted_value(dirs) ==
    IF Len(dirs) <= 0 THEN dirs ELSE _sorted_value(dirs)

\* first(it): the first item, or None
first(it) == IF Len(it) = 0 THEN None ELSE it[1]

(***************************************************************************)
(* The state: the backend (operations), the arguments of the run (pa, the  *)
(* targets of cleandir), the locals of cleandir, and what a run did.       *)
(***************************************************************************)
VARIABLES
    backend,    \* the class of operations: "Operations" or "FakeOperations"
    store,      \* the entries under path (FakeOperations: self.dirs), name -> space held
    space,      \* the free space the backend reports
    targets,    \* pa: keep_backups, target_freespace, target_backups, target_removed, snap
    pc,         \* "main", "loop" (in cleandir), "stopped", "failed", "usage"
    out,        \* what the last step printed, traced or raised
    target_removed,              \* cleandir's local, counted down
    last_dirs,                   \* cleandir's local
    was_above_target_freespace,  \* cleandir's local: "None", "True", "False"
    was_above_target_backups,    \* cleandir's local: "None", "True", "False"
    run,        \* the number of the call of cleandir on this backend
    calls,      \* the backend calls made since this call of cleandir (or main) began
    start,      \* the listing when this call of cleandir began
    start_fsp,  \* the free space when this call of cleandir began
    removed,    \* the names unsnap deleted in this call of cleandir, in order
    prev        \* how the call of cleandir before this one ended, "" for none

vars == <<backend, store, space, targets, pc, out, target_removed, last_dirs,
          was_above_target_freespace, was_above_target_backups, run, calls,
          start, start_fsp, removed, prev>>

(***************************************************************************)
(* The inputs.                                                             *)
(***************************************************************************)
\* the name of the built-in test's snapshot of hour h
TestName(h) == strftime(<<2010, 12, 1, h, 0, 0>>)

\* the dirs of the built-in test: nine hourly names, hour h holding h
TestDirs == [d \in {TestName(h) : h \in 0..8} |->
                CHOOSE h \in 0..8 : TestName(h) = d]

\* entries that are no timestamps
Junk == {<<"b", "k">>, strftime(<<2010, 2, 30, 0, 0, 0>>)}

\* the names arbitrary initial directories are drawn from
SmallNames == {TestName(h) : h \in 0..2}

\* the space an entry holds
SpaceOf(d) == IF d \in DOMAIN TestDirs THEN TestDirs[d] ELSE 1

\* datestamp(): the name of the present instant, later than every test name
datestamp == strftime(<<2010, 12, 1, 9, 0, 0>>)

KeepChoices == {None} \cup {<<k>> : k \in 0..2}
BackupsChoices == {None} \cup {<<k>> : k \in {0, 1, 3}}
FreespaceChoices == {None, <<5>>, <<8>>, <<100>>}
RemovedChoices == {None} \cup {<<k>> : k \in 0..2}
SnapChoices == {None, <<"/">>}

\* every name of the model
Universe == (DOMAIN TestDirs) \cup SmallNames \cup Junk \cup {datestamp}

\* names a few seconds apart, and one an hour later: the values of names so
\* close differ by the same amount from one to the next, so that adjacent
\* pairs have equal differences, as they have in floating point when the
\* growth of the difference is below its precision
PlanNames ==
    {strftime(<<2010, 12, 1, 0, 0, sec>>) : sec \in {0, 1, 2, 3, 5}} \cup {TestName(1)}

\* every listing of the model
Listings == (SUBSET Universe) \cup (SUBSET PlanNames)

\* a function as an explicit table, computed once
Table(f) == f @@ <<>>

\* timef, sorted and sorted_value over the names of the model
timefOf == Table([x \in Universe \cup PlanNames |-> timef(x)])

sortedOf == Table([D \in Listings |-> sorted(D)])

rankingOf == Table([D \in Listings |-> sorted_value(sortedOf[D])])

InitStores ==
    [b \in {"Operations", "FakeOperations"} |->
        {[d \in D |-> SpaceOf(d)] :
            D \in {E \in SUBSET (SmallNames \cup (IF b = "Operations" THEN Junk ELSE {})) :
                      Cardinality(E) <= MaxInitDirs}}
        \cup {TestDirs}]

NoCalls == [snap |-> 0, listdir |-> 0, freespace |-> 0, unsnap |-> 0]

\* a count after one more call
Count(n) == IF n < MaxCalls THEN n + 1 ELSE n

\* the targets of the wide part of Init
AllTargets ==
    [keep_backups : KeepChoices, target_freespace : FreespaceChoices,
     target_backups : BackupsChoices, target_removed : RemovedChoices,
     snap : SnapChoices]

\* the targets of the deep part of Init: the default keep_backups or none,
\* a count to reach or none, one removal a run or any number
FewTargets ==
    [keep_backups : {None, <<2>>}, target_freespace : {None},
     target_backups : {<<0>>, <<3>>}, target_removed : {None, <<1>>},
     snap : {None}]

\* every part of the dirs of the built-in test
TestStores == {[d \in D |-> TestDirs[d]] : D \in SUBSET (DOMAIN TestDirs)}

Init ==
    /\ backend \in {"Operations", "FakeOperations"}
    /\ \/ store \in InitStores[backend] /\ targets \in AllTargets
       \/ backend = "FakeOperations" /\ store \in TestStores /\ targets \in FewTargets
    /\ space = 5
    /\ pc = "main"
    /\ out = <<>>
    /\ target_removed = None
    /\ last_dirs = <<>>
    /\ was_above_target_freespace = "None"
    /\ was_above_target_backups = "None"
    /\ run = 0
    /\ calls = NoCalls
    /\ start = <<>>
    /\ start_fsp = 0
    /\ removed = <<>>
    /\ prev = ""

(***************************************************************************)
(* The backend.                                                            *)
(***************************************************************************)
\* a slip: Operations gives every entry of the directory, as os.listdir does
listdir_all(b, st) == DOMAIN st

\* operations.listdir(): Operations keeps the names that have a value,
\* FakeOperations gives every key
listdirOf(b, st) ==
    IF b = "Operations" THEN {d \in DOMAIN st : timefOf[d] # None} ELSE DOMAIN st

listdir == listdirOf(backend, store)

\* what a call of unsnap or snap can come to: FakeOperations always acts;
\* the command Operations runs acts, or ends with status 0 without acting,
\* or ends with another status, which check_call raises
Outcomes == IF backend = "Operations" THEN {"done", "nothing", "raised"} ELSE {"done"}

\* a slip: unsnap traces and adds the space, and does not delete the entry
Kept(st, d) == st

\* the entries after unsnap(d) / snap has acted
Without(st, d) == [x \in (DOMAIN st) \ {d} |-> st[x]]

With(st, d, v) == [x \in (DOMAIN st) \cup {d} |-> IF x = d THEN v ELSE st[x]]

(***************************************************************************)
(* main: the check of the arguments, the snapshot, the call of cleandir.   *)
(***************************************************************************)
\* a slip: the check of the targets comes after operations.snap
MainErrorAfterSnap ==
    /\ pc = "main"
    /\ targets.target_freespace = None /\ targets.target_backups = None
    /\ pc' = "usage"
    /\ out' = <<"Set a target">>
    /\ IF targets.snap = None
       THEN UNCHANGED <<store, calls>>
       ELSE /\ calls' = [NoCalls EXCEPT !.snap = 1]
            /\ store' = With(store, datestamp, 1)
    /\ UNCHANGED <<backend, space, targets, target_removed, last_dirs,
                   was_above_target_freespace, was_above_target_backups, run,
                   start, start_fsp, removed, prev>>

\* parser.error: neither target is set
MainError ==
    /\ pc = "main"
    /\ targets.target_freespace = None /\ targets.target_backups = None
    /\ pc' = "usage"
    /\ out' = <<"Set a target">>
    /\ UNCHANGED <<backend, store, space, targets, target_removed, last_dirs,
                   was_above_target_freespace, was_above_target_backups, run,
                   calls, start, start_fsp, removed, prev>>

\* a slip: last_dirs outlives the call, as a variable of the module would
EnterCleandirKeepingLast(st) ==
    /\ target_removed' = targets.target_removed
    /\ last_dirs' = last_dirs
    /\ was_above_target_freespace' = "None"
    /\ was_above_target_backups' = "None"
    /\ run' = run + 1
    /\ start' = sortedOf[listdirOf(backend, st)]
    /\ start_fsp' = space
    /\ removed' = <<>>

\* the locals of cleandir as it begins
EnterCleandir(st) ==
    /\ target_removed' = targets.target_removed
    /\ last_dirs' = <<>>
    /\ was_above_target_freespace' = "None"
    /\ was_above_target_backups' = "None"
    /\ run' = run + 1
    /\ start' = sortedOf[listdirOf(backend, st)]
    /\ start_fsp' = space
    /\ removed' = <<>>

\* main with a target set: operations.snap if asked for, then cleandir
MainStart ==
    /\ pc = "main"
    /\ ~(targets.target_freespace = None /\ targets.target_backups = None)
    /\ IF targets.snap = None
       THEN /\ pc' = "loop"
            /\ out' = <<>>
            /\ calls' = NoCalls
            /\ EnterCleandir(store)
            /\ UNCHANGED store
       ELSE \E o \in Outcomes \ {"nothing"} :
            /\ calls' = [NoCalls EXCEPT !.snap = 1]
            /\ IF o = "raised"
               THEN /\ pc' = "failed"
                    /\ out' = <<"failed btrfs subvolume snapshot">>
                    /\ UNCHANGED <<store, target_removed, last_dirs,
                                   was_above_target_freespace,
                                   was_above_target_backups, run, start,
                                   start_fsp, removed>>
               ELSE /\ pc' = "loop"
                    /\ out' = <<"snap">>
                    /\ store' = With(store, datestamp, 1)
                    /\ EnterCleandir(store')
    /\ UNCHANGED <<backend, space, targets, prev>>

(***************************************************************************)
(* cleandir: one action for each way an iteration of its loop can end.     *)
(***************************************************************************)
\* dirs = sorted(operations.listdir())
dirs == sortedOf[listdir]

dirs_len == Len(dirs)

\* the iteration passes the checks of the listing
Listed == pc = "loop" /\ dirs_len > 0 /\ dirs # last_dirs

\* a slip: < for <=, so that the iteration at the floor passes
AtOrAboveFloor ==
    IF targets.keep_backups = None THEN TRUE ELSE dirs_len >= targets.keep_backups[1]

\* the iteration passes the check of keep_backups
AboveFloor ==
    IF targets.keep_backups = None THEN TRUE ELSE dirs_len > targets.keep_backups[1]

\* a slip: < for <=, so that the iteration at zero passes
UnderCapOrAt == IF target_removed = None THEN TRUE ELSE target_removed[1] >= 0

\* the iteration passes the check of target_removed
UnderCap == IF target_removed = None THEN TRUE ELSE target_removed[1] > 0

\* target_removed after the check
Decremented == IF target_removed = None THEN None ELSE <<target_removed[1] - 1>>

\* fsp = operations.freespace()
fsp == space

\* a slip: > for >=, so that free space equal to the target asks for more
do_del_fsp_strict ==
    IF targets.target_freespace = None THEN "None"
    ELSE IF fsp > targets.target_freespace[1] THEN "False" ELSE "True"

\* do_del after the block of target_freespace
do_del_fsp ==
    IF targets.target_freespace = None THEN "None"
    ELSE IF fsp >= targets.target_freespace[1] THEN "False" ELSE "True"

\* a slip: the block of target_backups sets do_del to False without looking
\* at what the block of target_freespace left in it
do_del_last ==
    IF targets.target_backups = None THEN do_del_fsp
    ELSE IF dirs_len <= targets.target_backups[1] THEN "False" ELSE "True"

\* do_del after the block of target_backups
do_del ==
    IF targets.target_backups = None THEN do_del_fsp
    ELSE IF dirs_len <= targets.target_backups[1]
         THEN (IF do_del_fsp = "None" THEN "False" ELSE do_del_fsp)
         ELSE "True"

\* a flag was_above_... after its block: met says the target is satisfied
WasAbove(target, met, was) ==
    IF target = None THEN was
    ELSE IF met THEN "False"
    ELSE IF was = "None" THEN "True" ELSE was

\* the trace of a target found satisfied, once
Satisfied(target, met, was, text) ==
    IF target # None /\ met /\ was \in {"True", "None"} THEN <<text>> ELSE <<>>

fsp_met == targets.target_freespace # None /\ fsp >= targets.target_freespace[1]

backups_met == targets.target_backups # None /\ dirs_len <= targets.target_backups[1]

\* lines 240-268: the two blocks of the targets
EvalTargets ==
    /\ was_above_target_freespace' =
          WasAbove(targets.target_freespace, fsp_met, was_above_target_freespace)
    /\ was_above_target_backups' =
          WasAbove(targets.target_backups, backups_met, was_above_target_backups)
    /\ calls' = [calls EXCEPT !.listdir = Count(@),
                              !.freespace = IF targets.target_freespace = None
                                            THEN @ ELSE Count(@)]

TargetTraces ==
    Satisfied(targets.target_freespace, fsp_met, was_above_target_freespace,
              "Satisfied freespace target")
    \o Satisfied(targets.target_backups, backups_met, was_above_target_backups,
                 "Satisfied target number of backups")

next_del == first(rankingOf[Range(dirs)])

\* a slip: the check of keep_backups comes before the check of the empty
\* listing, which then stops the call as any listing at the floor does
EmptyAfterKeep ==
    /\ pc = "loop"
    /\ dirs_len <= 0
    /\ IF targets.keep_backups # None
       THEN pc' = "stopped" /\ out' = <<"Reached number of backups to keep">>
       ELSE pc' = "failed" /\ out' = <<"No more directories to clean">>
    /\ calls' = [calls EXCEPT !.listdir = Count(@)]
    /\ UNCHANGED <<backend, store, space, targets, target_removed, last_dirs,
                   was_above_target_freespace, was_above_target_backups, run,
                   start, start_fsp, removed, prev>>

\* lines 220-222: the listing is empty
FailEmpty ==
    /\ pc = "loop"
    /\ dirs_len <= 0
    /\ pc' = "failed"
    /\ out' = <<"No more directories to clean">>
    /\ calls' = [calls EXCEPT !.listdir = Count(@)]
    /\ UNCHANGED <<backend, store, space, targets, target_removed, last_dirs,
                   was_above_target_freespace, was_above_target_backups, run,
                   start, start_fsp, removed, prev>>

\* a slip: the unchanged listing ends the loop with a break, no exception
BreakNoProgress ==
    /\ pc = "loop"
    /\ dirs_len > 0
    /\ dirs = last_dirs
    /\ pc' = "stopped"
    /\ out' = <<"No directories removed">>
    /\ calls' = [calls EXCEPT !.listdir = Count(@)]
    /\ UNCHANGED <<backend, store, space, targets, target_removed, last_dirs,
                   was_above_target_freespace, was_above_target_backups, run,
                   start, start_fsp, removed, prev>>

\* a slip: the unchanged listing is forgotten and listed again, no exception
RetryNoProgress ==
    /\ pc = "loop"
    /\ dirs_len > 0
    /\ dirs = last_dirs
    /\ last_dirs' = <<>>
    /\ out' = <<"No directories removed">>
    /\ calls' = [calls EXCEPT !.listdir = Count(@)]
    /\ UNCHANGED <<backend, store, space, targets, pc, target_removed,
                   was_above_target_freespace, was_above_target_backups, run,
                   start, start_fsp, removed, prev>>

\* lines 223-225: the listing is the one of the iteration before
FailNoProgress ==
    /\ pc = "loop"
    /\ dirs_len > 0
    /\ dirs = last_dirs
    /\ pc' = "failed"
    /\ out' = <<"No directories removed">>
    /\ calls' = [calls EXCEPT !.listdir = Count(@)]
    /\ UNCHANGED <<backend, store, space, targets, target_removed, last_dirs,
                   was_above_target_freespace, was_above_target_backups, run,
                   start, start_fsp, removed, prev>>

\* lines 229-232: keep_backups is reached
StopKeep ==
    /\ Listed
    /\ ~AboveFloor
    /\ last_dirs' = dirs
    /\ pc' = "stopped"
    /\ out' = <<"Reached number of backups to keep">>
    /\ calls' = [calls EXCEPT !.listdir = Count(@)]
    /\ UNCHANGED <<backend, store, space, targets, target_removed,
                   was_above_target_freespace, was_above_target_backups, run,
                   start, start_fsp, removed, prev>>

\* lines 234-237: target_removed is used up
StopRemoved ==
    /\ Listed
    /\ AboveFloor
    /\ ~UnderCap
    /\ last_dirs' = dirs
    /\ pc' = "stopped"
    /\ out' = <<"Reached max numbers of snapshots to delete">>
    /\ calls' = [calls EXCEPT !.listdir = Count(@)]
    /\ UNCHANGED <<backend, store, space, targets, target_removed,
                   was_above_target_freespace, was_above_target_backups, run,
                   start, start_fsp, removed, prev>>

\* lines 270-271: no target asks for a removal
StopTargets ==
    /\ Listed
    /\ AboveFloor
    /\ UnderCap
    /\ do_del # "True"
    /\ last_dirs' = dirs
    /\ target_removed' = Decremented
    /\ EvalTargets
    /\ pc' = "stopped"
    /\ out' = TargetTraces
    /\ UNCHANGED <<backend, store, space, targets, run, start, start_fsp, removed,
                   prev>>

\* lines 273-276: the planner yields nothing
StopNoMore ==
    /\ Listed
    /\ AboveFloor
    /\ UnderCap
    /\ do_del = "True"
    /\ next_del = None
    /\ last_dirs' = dirs
    /\ target_removed' = Decremented
    /\ EvalTargets
    /\ pc' = "stopped"
    /\ out' = TargetTraces \o <<"No more backups left">>
    /\ UNCHANGED <<backend, store, space, targets, run, start, start_fsp, removed,
                   prev>>

\* a slip: the exception of unsnap is caught and the loop goes on
UnsnapCaught ==
    /\ Listed
    /\ AboveFloor
    /\ UnderCap
    /\ do_del = "True"
    /\ next_del # None
    /\ last_dirs' = dirs
    /\ target_removed' = Decremented
    /\ was_above_target_freespace' =
          WasAbove(targets.target_freespace, fsp_met, was_above_target_freespace)
    /\ was_above_target_backups' =
          WasAbove(targets.target_backups, backups_met, was_above_target_backups)
    /\ calls' = [calls EXCEPT !.listdir = Count(@),
                              !.freespace = IF targets.target_freespace = None
                                            THEN @ ELSE Count(@),
                              !.unsnap = Count(@)]
    /\ \E o \in Outcomes :
          /\ pc' = "loop"
          /\ out' = TargetTraces \o
                       (IF o = "raised" THEN <<"failed btrfs subvolume delete">>
                        ELSE <<"unsnap">>)
          /\ store' = IF o = "done" THEN Without(store, next_del) ELSE store
          /\ space' = IF o = "done" THEN space + store[next_del] ELSE space
          /\ removed' = IF o = "done" THEN Append(removed, next_del) ELSE removed
    /\ UNCHANGED <<backend, targets, run, start, start_fsp, prev>>

\* lines 277-278: operations.unsnap(next_del), and what comes of it
Unsnap ==
    /\ Listed
    /\ AboveFloor
    /\ UnderCap
    /\ do_del = "True"
    /\ next_del # None
    /\ last_dirs' = dirs
    /\ target_removed' = Decremented
    /\ was_above_target_freespace' =
          WasAbove(targets.target_freespace, fsp_met, was_above_target_freespace)
    /\ was_above_target_backups' =
          WasAbove(targets.target_backups, backups_met, was_above_target_backups)
    /\ calls' = [calls EXCEPT !.listdir = Count(@),
                              !.freespace = IF targets.target_freespace = None
                                            THEN @ ELSE Count(@),
                              !.unsnap = Count(@)]
    /\ \E o \in Outcomes :
          /\ pc' = IF o = "raised" THEN "failed" ELSE "loop"
          /\ out' = TargetTraces \o
                       (IF o = "raised" THEN <<"failed btrfs subvolume delete">>
                        ELSE <<"unsnap">>)
          /\ store' = IF o = "done" THEN Without(store, next_del) ELSE store
          /\ space' = IF o = "done" THEN space + store[next_del] ELSE space
          /\ removed' = IF o = "done" THEN Append(removed, next_del) ELSE removed
    /\ UNCHANGED <<backend, targets, run, start, start_fsp, prev>>

\* cleandir is called again on the backend as the last call left it
Again ==
    /\ pc \in {"stopped", "failed"}
    /\ run >= 1
    /\ run < MaxRuns
    /\ pc' = "loop"
    /\ out' = <<>>
    /\ calls' = NoCalls
    /\ EnterCleandir(store)
    /\ prev' = pc
    /\ UNCHANGED <<backend, store, space, targets>>

\* one iteration of the loop of cleandir
Iterate ==
    \/ FailEmpty
    \/ FailNoProgress
    \/ StopKeep
    \/ StopRemoved
    \/ StopTargets
    \/ StopNoMore
    \/ Unsnap

Next ==
    \/ MainError
    \/ MainStart
    \/ Iterate
    \/ Again

Spec == Init /\ [][Next]_vars

\* the targets of the runs whose end is checked: the default keep_backups
\* or none, a free space no removal reaches, a count no removal reaches or
\* one that the last removal reaches
LiveTargets ==
    [keep_backups : {None, <<2>>}, target_freespace : {None, <<100>>},
     target_backups : {None, <<0>>, <<1>>}, target_removed : {None, <<1>>},
     snap : {None}]

LiveInit == Init /\ targets \in LiveTargets /\ store \in InitStores[backend]

\* the loop of cleandir runs on: no iteration waits for anything
FairSpec == LiveInit /\ [][Next]_vars /\ WF_vars(Iterate)

\* cleandir called on a backend built with any dirs: FakeOperations takes
\* the dirs it is given, names that are no timestamps among them
CoreStores ==
    {[d \in D |-> SpaceOf(d)] :
        D \in {E \in SUBSET (SmallNames \cup Junk) : Cardinality(E) <= MaxInitDirs}}
    \cup {TestDirs, With(TestDirs, <<"b", "k">>, 1)}

CoreTargets ==
    [keep_backups : KeepChoices, target_freespace : {None, <<100>>},
     target_backups : BackupsChoices, target_removed : {None, <<1>>},
     snap : {None}]

CoreInit ==
    /\ backend \in {"Operations", "FakeOperations"}
    /\ store \in CoreStores
    /\ targets \in CoreTargets
    /\ space = 5
    /\ pc = "main"
    /\ out = <<>>
    /\ target_removed = None
    /\ last_dirs = <<>>
    /\ was_above_target_freespace = "None"
    /\ was_above_target_backups = "None"
    /\ run = 0
    /\ calls = NoCalls
    /\ start = <<>>
    /\ start_fsp = 0
    /\ removed = <<>>
    /\ prev = ""

CoreSpec == CoreInit /\ [][Next]_vars

\* the program on directories of names a few seconds apart
PlanStores == {[d \in D |-> 1] : D \in SUBSET PlanNames}

PlanTargets ==
    [keep_backups : {None, <<2>>}, target_freespace : {None},
     target_backups : {None, <<0>>, <<1>>}, target_removed : {None, <<1>>},
     snap : {None}]

PlanInit ==
    /\ backend \in {"Operations", "FakeOperations"}
    /\ store \in PlanStores
    /\ targets \in PlanTargets
    /\ space = 5
    /\ pc = "main"
    /\ out = <<>>
    /\ target_removed = None
    /\ last_dirs = <<>>
    /\ was_above_target_freespace = "None"
    /\ was_above_target_backups = "None"
    /\ run = 0
    /\ calls = NoCalls
    /\ start = <<>>
    /\ start_fsp = 0
    /\ removed = <<>>
    /\ prev = ""

PlanSpec == PlanInit /\ [][Next]_vars

(***************************************************************************)
(* What the claims speak of.                                               *)
(***************************************************************************)
\* a call of cleandir has ended
Ended == pc \in {"stopped", "failed"}

\* a call of cleandir is under way or has ended
Started == run >= 1 /\ pc \in {"loop", "stopped", "failed"}

\* the names of D that have a value
valid(D) == {d \in D : timefOf[d] # None}

\* the name of D with the highest value
latest(D) ==
    CHOOSE x \in valid(D) :
        \A y \in valid(D) \ {x} : PairLess(<<timefOf[y][1], y>>, <<timefOf[x][1], x>>)

\* the step is a call of unsnap
UnsnapCalled == calls'.unsnap = calls.unsnap + 1

\* C1: when keep_backups is set, unsnap is called only in an iteration whose
\* listing holds more than keep_backups names, and a call of cleandir that
\* began with at least keep_backups names never lists fewer, whatever the
\* other targets are
C1_FloorKept ==
    /\ [][UnsnapCalled /\ targets.keep_backups # None
            => dirs_len > targets.keep_backups[1]]_vars
    /\ [](Started /\ targets.keep_backups # None
            => (Len(start) >= targets.keep_backups[1]
                  => dirs_len >= targets.keep_backups[1]))

\* C1: the floor was reached by removals while the free space asked for is
\* out of reach
C1_Witness ==
    /\ pc = "stopped"
    /\ out = <<"Reached number of backups to keep">>
    /\ targets.target_freespace = <<100>>
    /\ Len(removed) > 0
    /\ dirs_len = targets.keep_backups[1]

\* C2: the planner never yields the name with the highest value, so that what
\* is left after removing the first N names it yields, from a collection of
\* N+1 names or more, holds that name
C2_LatestNeverYielded ==
    LET V == valid(listdir)
        r == rankingOf[listdir]
    IN  V # {} =>
          /\ latest(listdir) \notin Range(r)
          /\ \A N \in 0..Len(r) :
                N + 1 <= Cardinality(V)
                  => latest(listdir) \in V \ {r[i] : i \in 1..N}

\* C2: three names of the first listing are gone and its latest is listed
C2_Witness ==
    /\ Started
    /\ Len(removed) >= 3
    /\ latest(Range(start)) \in listdir

\* C3: what the planner yields is every name with a value but the latest,
\* each once: one name fewer than there are, and nothing for one name or none
C3_Permutation ==
    LET V == valid(listdir)
        r == rankingOf[listdir]
    IN  /\ Len(r) = (IF Cardinality(V) >= 2 THEN Cardinality(V) - 1 ELSE 0)
        /\ Cardinality(Range(r)) = Len(r)
        /\ Range(r) = (IF V = {} THEN {} ELSE V \ {latest(listdir)})

\* C3: a call of cleandir removed every name of the built-in test but the
\* latest
C3_Witness ==
    /\ pc = "stopped"
    /\ Len(start) = 9
    /\ Len(removed) = 8
    /\ Cardinality(valid(listdir)) = 1

\* C4: every call of cleandir ends, cleanly or with a failure, having removed
\* no more names than its first listing held, when each call of unsnap
\* deletes the name or leaves the entries as they are
C4_Terminates ==
    /\ [](Len(removed) <= Len(start))
    /\ [](pc = "loop" => <>Ended)

\* C4: a call ended after a call of unsnap that left the entries as they were
C4_Witness ==
    /\ Ended
    /\ calls.unsnap > Len(removed)
    /\ targets.target_freespace = <<100>>

\* C5: an iteration whose listing is the listing of the iteration before
\* ends the call with the failure "No directories removed", with no call of
\* freespace or unsnap and no entry changed
C5_NoProgressFails ==
    [][pc = "loop" /\ last_dirs # <<>> /\ dirs = last_dirs
          => /\ pc' = "failed"
             /\ out' = <<"No directories removed">>
             /\ calls'.unsnap = calls.unsnap
             /\ calls'.freespace = calls.freespace
             /\ store' = store]_vars

\* C5: the call failed for a listing that did not change
C5_Witness ==
    /\ pc = "failed"
    /\ out = <<"No directories removed">>
    /\ dirs = last_dirs

\* the most calls of unsnap target_removed allows
Cap == IF targets.target_removed[1] > 0 THEN targets.target_removed[1] ELSE 0

\* C6: when target_removed is set, a call of cleandir calls unsnap at most
\* target_removed times, and never when target_removed <= 0; with
\* target_removed = 1 and target_backups = 0 and nine names listed, a backend
\* that deletes what it is asked to ends with one name removed and a clean stop
C6_RemovedCapped ==
    /\ Started /\ targets.target_removed # None
         => calls.unsnap <= Cap /\ Len(removed) <= Cap
    /\ (/\ Ended
        /\ backend = "FakeOperations"
        /\ targets.target_removed = <<1>>
        /\ targets.target_backups = <<0>>
        /\ Len(start) = 9)
         => pc = "stopped" /\ Len(removed) = 1

\* C6: the run of one removal among nine names has ended
C6_Witness ==
    /\ pc = "stopped"
    /\ out = <<"Reached max numbers of snapshots to delete">>
    /\ targets.target_removed = <<1>>
    /\ targets.target_backups = <<0>>
    /\ Len(start) = 9
    /\ Len(removed) = 1

\* the seconds between two names
gap(a, b) == mktime(strptime(b)) - mktime(strptime(a))

\* the first call of cleandir in the built-in test, on the nine hourly names,
\* with keep_backups = 2 and target_backups = 3 and nothing else
InScenarioA ==
    /\ Started
    /\ run = 1
    /\ backend = "FakeOperations"
    /\ start = sortedOf[DOMAIN TestDirs]
    /\ targets.keep_backups = <<2>>
    /\ targets.target_backups = <<3>>
    /\ targets.target_freespace = None
    /\ targets.target_removed = None

\* C7: in scenario A the latest name, 20101201-080000, is there after every
\* step, and the call ends with six names removed and three left whose
\* distance grows with age: the two oldest are further apart than the two
\* newest
C7_ScenarioA ==
    InScenarioA =>
        /\ TestName(8) \in listdir
        /\ pc # "failed"
        /\ pc = "stopped" =>
              /\ Len(removed) = 6
              /\ dirs_len = 3
              /\ gap(dirs[1], dirs[2]) > gap(dirs[2], dirs[3])

\* the free space target was satisfied when the call of cleandir began
FreespaceMetAtStart ==
    IF targets.target_freespace = None THEN FALSE
    ELSE start_fsp >= targets.target_freespace[1]

\* the count target was satisfied, or not set, when the call began
BackupsMetAtStart ==
    IF targets.target_backups = None THEN TRUE
    ELSE Len(start) <= targets.target_backups[1]

\* the call of cleandir removes nothing and does not fail
NothingRemoved ==
    /\ removed = <<>>
    /\ calls.unsnap = 0
    /\ pc # "failed"
    /\ pc = "loop" => calls.listdir = 0

\* C8 as stated: a call of cleandir that begins with target_freespace
\* satisfied removes nothing and stops cleanly, whatever it lists
C8_AsStated == (Started /\ FreespaceMetAtStart) => NothingRemoved

\* C8: a call of cleandir that begins with target_freespace satisfied, with
\* a listing that is not empty and with target_backups not set or satisfied
\* as well, removes nothing and stops cleanly
C8_FreespaceMet ==
    (Started /\ FreespaceMetAtStart /\ Len(start) > 0 /\ BackupsMetAtStart)
        => NothingRemoved

\* C8: such a call has stopped, having asked for the free space
C8_Witness ==
    /\ pc = "stopped"
    /\ FreespaceMetAtStart /\ Len(start) > 2 /\ BackupsMetAtStart
    /\ out = <<"Satisfied freespace target">>
    /\ calls.freespace = 1

\* every target that is set was satisfied when the call of cleandir began
TargetsMetAtStart ==
    /\ IF targets.target_freespace = None THEN TRUE
       ELSE start_fsp >= targets.target_freespace[1]
    /\ BackupsMetAtStart

\* C9: a call of cleandir made right after one that stopped cleanly with
\* every target satisfied removes nothing and stops cleanly again
C9_Idempotent ==
    (Started /\ run >= 2 /\ prev = "stopped" /\ TargetsMetAtStart)
        => NothingRemoved

\* C9: the second call has stopped, after a first one that removed names to
\* reach the targets
C9_Witness ==
    /\ run = 2
    /\ pc = "stopped"
    /\ prev = "stopped"
    /\ TargetsMetAtStart
    /\ start_fsp > 5
    /\ calls.listdir = 1

NoMoreLeft == \E i \in 1..Len(out) : out[i] = "No more backups left"

\* C10 as stated: with one name listed when it begins, a call of cleandir
\* stops cleanly, removes nothing and reports "No more backups left",
\* whatever the targets are
C10_AsStated ==
    (Started /\ Len(start) = 1 /\ Ended)
        => pc = "stopped" /\ removed = <<>> /\ NoMoreLeft

\* with one name listed, the iteration reaches the planner: keep_backups is
\* not set or not positive, target_removed is not set or positive, and a
\* target asks for a removal
ReachesPlanner ==
    /\ IF targets.keep_backups = None THEN TRUE ELSE targets.keep_backups[1] < 1
    /\ IF targets.target_removed = None THEN TRUE ELSE targets.target_removed[1] > 0
    /\ ~TargetsMetAtStart

\* C10: with one name listed when it begins, the planner yields nothing and
\* a call of cleandir removes nothing and does not fail; when it stops it
\* reports "No more backups left" exactly if the iteration reached the
\* planner, and otherwise stops on keep_backups, target_removed or the targets
C10_OneSnapshot ==
    (Started /\ Len(start) = 1)
        => /\ sorted_value(start) = <<>>
           /\ NothingRemoved
           /\ pc = "stopped" => (NoMoreLeft <=> ReachesPlanner)

\* C10: the call on one name stopped with "No more backups left"
C10_Witness ==
    /\ pc = "stopped"
    /\ Len(start) = 1
    /\ NoMoreLeft
    /\ removed = <<>>

\* the entries that are no timestamps
malformed(st) == {d \in DOMAIN st : timefOf[d] = None}

\* the planner yields no malformed name and no step deletes one
MalformedKept ==
    /\ [](\A i \in 1..Len(rankingOf[DOMAIN store]) :
              timefOf[rankingOf[DOMAIN store][i]] # None)
    /\ [](\A i \in 1..Len(removed) : timefOf[removed[i]] # None)
    /\ [][malformed(store) \subseteq malformed(store')]_vars

diffsOf(candidates) ==
    LET remain == sortedPairs({<<candidates[k], k>> : k \in DOMAIN candidates})
        pl     == poles(remain)
    IN  [i \in 1..Len(pl) |-> <<pl[i][2][1] - pl[i][1][1], pl[i][1][2], pl[i][2][2]>>]

\* the pair of the lowest score among the names listed: (older, newer)
lowest == LET m == min(diffsOf(candidatesOf(dirs))) IN <<m[2], m[3]>>

\* the listing has a pair of candidates: three names with a value or more
HasPair == Cardinality(valid(listdir)) >= 3

\* C12: of the two adjacent snapshots around the space of the lowest score,
\* the name given to unsnap is the older one
C12_RemovesOlder ==
    [][UnsnapCalled /\ HasPair => next_del = lowest[1]]_vars

\* neither target_freespace nor target_backups is set
NoTarget == targets.target_freespace = None /\ targets.target_backups = None

\* C13: a run with neither target_freespace nor target_backups ends with the
\* error of the arguments and calls neither snap nor listdir nor freespace
\* nor unsnap: cleandir is not entered and no entry changes
C13_RejectedBeforeBackend ==
    /\ [](NoTarget => /\ pc \in {"main", "usage"}
                      /\ calls = NoCalls
                      /\ run = 0
                      /\ removed = <<>>)
    /\ [](pc = "usage" => NoTarget)
    /\ [][NoTarget => pc' = "usage" /\ store' = store /\ space' = space]_vars

\* C13: the run was rejected although a snapshot was asked for and the
\* directory holds names that a target would have removed
C13_Witness ==
    /\ pc = "usage"
    /\ NoTarget
    /\ targets.snap # None
    /\ Cardinality(valid(DOMAIN store)) >= 3
    /\ calls = NoCalls

\* the value of a name that has one
value(x) == timefOf[x][1]

\* the adjacent pairs of a collection C of valid names, in ascending order of
\* value: (earlier, later) with no name of C between the two
AdjacentPairs(C) ==
    {p \in C \X C :
        /\ value(p[1]) < value(p[2])
        /\ ~\E c \in C : value(p[1]) < value(c) /\ value(c) < value(p[2])}

score(p) == value(p[2]) - value(p[1])

\* the pair of the least score, and of several such the one whose earlier
\* member is lexically smallest
Selected(C) ==
    LET least == {p \in AdjacentPairs(C) : \A q \in AdjacentPairs(C) : score(p) <= score(q)}
    IN  CHOOSE p \in least : \A q \in least \ {p} : StrLess(p[1], q[1])

\* the reference rule: while more than one candidate is left, the later
\* member of the selected pair; then the one that is left
RECURSIVE Reference(_)
Reference(C) ==
    IF Cardinality(C) > 1
    THEN <<Selected(C)[2]>> \o Reference(C \ {Selected(C)[2]})
    ELSE IF C = {} THEN <<>>
    ELSE <<CHOOSE c \in C : TRUE>>

\* two adjacent pairs of the candidates of the listing D have the least score
TiedPairs(D) ==
    LET C == valid(D) \ {latest(D)}
    IN  \E p, q \in AdjacentPairs(C) :
            /\ p # q
            /\ score(p) = score(q)
            /\ \A r \in AdjacentPairs(C) : score(p) <= score(r)

SomeTargetUnmet ==
    \/ targets.target_freespace # None /\ space < targets.target_freespace[1]
    \/ targets.target_backups # None /\ dirs_len > targets.target_backups[1]

\* the step goes on to the removal: it asks the planner for a name
AsksPlanner == UnsnapCalled \/ (\E i \in 1..Len(out') : out'[i] = "No more backups left")

\* the call of cleandir stopped on the targets: not on keep_backups, not on
\* target_removed, not for want of a name to remove
StoppedOnTargets ==
    /\ pc = "stopped"
    /\ out # <<"Reached number of backups to keep">>
    /\ out # <<"Reached max numbers of snapshots to delete">>
    /\ ~NoMoreLeft

\* C15: an iteration that passed the checks of keep_backups and
\* target_removed goes on to the removal exactly when a target that is set is
\* not satisfied, and a call of cleandir that stopped on the targets ends
\* with every target that is set satisfied
C15_DeleteIffUnmet ==
    /\ [][Listed /\ AboveFloor /\ UnderCap
            => (AsksPlanner <=> SomeTargetUnmet)]_vars
    /\ [](StoppedOnTargets => ~SomeTargetUnmet)

\* C15: the call stopped on the targets after six removals, the free space
\* asked for being there after the second and the count after the sixth
C15_Witness ==
    /\ StoppedOnTargets
    /\ targets.target_freespace = <<8>>
    /\ targets.target_backups = <<3>>
    /\ Len(removed) = 6
    /\ dirs_len = 3
    /\ space >= 8

\* C16: an iteration whose listing is empty ends the call of cleandir with
\* the failure "No more directories to clean", whatever keep_backups and the
\* targets are, with no call of freespace or unsnap and no entry changed
C16_EmptyFails ==
    [][pc = "loop" /\ dirs_len = 0
          => /\ pc' = "failed"
             /\ out' = <<"No more directories to clean">>
             /\ calls'.freespace = calls.freespace
             /\ calls'.unsnap = calls.unsnap
             /\ store' = store]_vars

\* C16: the call failed on an empty listing although the listing is at the
\* floor of keep_backups and target_backups is satisfied; the directory
\* holds entries, none of them a timestamp
C16_Witness ==
    /\ pc = "failed"
    /\ out = <<"No more directories to clean">>
    /\ targets.keep_backups = <<2>>
    /\ targets.target_backups = <<3>>
    /\ targets.target_freespace = <<5>>
    /\ dirs_len = 0
    /\ DOMAIN store # {}
    /\ calls.freespace = 0

\* what a step printed ends with the failure of the command of unsnap
FailedRemove(o) == Len(o) > 0 /\ o[Len(o)] = "failed btrfs subvolume delete"

\* C17: a call of unsnap that fails ends the call of cleandir as a failure
\* and leaves the entries as they were; nothing is listed, asked or removed
\* after it in that call, the next step being another call of cleandir; the
\* names listed are then those of the first listing but the ones removed
C17_FailedRemoveEndsRun ==
    /\ [][UnsnapCalled /\ FailedRemove(out')
            => pc' = "failed" /\ store' = store /\ removed' = removed]_vars
    /\ [][FailedRemove(out) => run' = run + 1 /\ calls' = NoCalls]_vars
    /\ [](FailedRemove(out)
            => pc = "failed" /\ listdir = Range(start) \ Range(removed))

\* C17: the third call of unsnap failed after two names were removed
C17_Witness ==
    /\ pc = "failed"
    /\ FailedRemove(out)
    /\ Len(removed) = 2
    /\ calls.unsnap = 3
    /\ listdir = Range(start) \ Range(removed)

\* the name of D with the lowest value
oldest(D) ==
    CHOOSE x \in valid(D) :
        \A y \in valid(D) \ {x} : PairLess(<<timefOf[x][1], x>>, <<timefOf[y][1], y>>)

\* the planner yields the oldest name last, and the name given to unsnap is
\* not the oldest when three valid names or more are listed
OldestLast ==
    /\ [](Len(rankingOf[listdir]) > 0
            => rankingOf[listdir][Len(rankingOf[listdir])] = oldest(listdir))
    /\ [][UnsnapCalled /\ Cardinality(valid(listdir)) >= 3
            => next_del # oldest(listdir)]_vars

\* keep_backups is set to two or more
KeepsTwo == IF targets.keep_backups = None THEN FALSE ELSE targets.keep_backups[1] >= 2

C19_LatestStays ==
    /\ (Started /\ valid(Range(start)) # {})
          => latest(Range(start)) \in listdir /\ dirs_len > 0
    /\ out = <<"No more directories to clean">>
          => pc = "failed" /\ calls.listdir = 1 /\ start = <<>>

\* C19: with keep_backups = 0 and target_backups = 0 a call of cleandir
\* removed every name but the latest of its first listing and stopped
C19_Witness ==
    /\ pc = "stopped"
    /\ targets.keep_backups = <<0>>
    /\ targets.target_backups = <<0>>
    /\ NoMoreLeft
    /\ Len(removed) >= 2
    /\ listdir = {latest(Range(start))}

\* C20: with FakeOperations, whose unsnap deletes the name it is given, a
\* step that leaves the call of cleandir in its loop removes one name of the
\* listing of that iteration and leaves every other entry as it was, so that
\* the next listing differs from the one before and the failure
\* "No directories removed" is never met
C20_ExactBackendProgress ==
    /\ [][backend = "FakeOperations" /\ pc = "loop" /\ pc' = "loop"
            => \E d \in listdir :
                  /\ store' = Without(store, d)
                  /\ d \notin DOMAIN store'
                  /\ last_dirs' = dirs
                  /\ sortedOf[DOMAIN store'] # last_dirs']_vars
    /\ [](backend = "FakeOperations"
            => out # <<"No directories removed">> /\ (pc = "loop" /\ dirs_len > 0 => dirs # last_dirs))

\* C20: FakeOperations has removed three names in three iterations and the
\* loop goes on, the listing being the one before less the last name removed
C20_Witness ==
    /\ backend = "FakeOperations"
    /\ pc = "loop"
    /\ Len(removed) = 3
    /\ calls.listdir = 3
    /\ Range(last_dirs) = listdir \cup {removed[3]}
    /\ removed[3] \notin listdir

====
